---- MODULE Spec2Model ----
\* Model of src/main.go: a command-line tool that, for each --security-group-names
\* flag value, looks up the network interfaces of the group and prints them.
EXTENDS Naturals, Sequences, FiniteSets

\* ---------------------------------------------------------------- bounds
\* Most occurrences of the --security-group-names flag on one command line.
MaxArgs == 2
\* Most interface records the remote API hands out over one run of the program.
MaxIfaces == 3

\* ---------------------------------------------------------------- values
\* Flag values: no validation is done, so the empty string is one of them.
FlagValues == {"", "sg-a", "sg-b"}

\* A Go pointer: nil, or a pointer to a value.
Nil == <<>>
Ptr(v) == <<v>>
IsNil(p) == Len(p) = 0
Deref(p) == p[1]

\* types.NetworkInterface as the API returns it: the identifier is always set,
\* the attachment and its instance identifier are optional.
IfaceRecords ==
    { [NetworkInterfaceId |-> Ptr("eni-1"), Attachment |-> Nil,
       Status |-> "available"],
      [NetworkInterfaceId |-> Ptr("eni-2"), Attachment |-> Ptr([InstanceId |-> Nil]),
       Status |-> "attaching"],
      [NetworkInterfaceId |-> Ptr("eni-3"), Attachment |-> Ptr([InstanceId |-> Ptr("i-123")]),
       Status |-> "in-use"] }

\* The (first page of the) responses DescribeNetworkInterfaces can give with at
\* most n records.
Responses(n) == UNION { [1..m -> IfaceRecords] : m \in 0..n }

\* Command lines: the values of the flag's occurrences, in order.
CommandLines == UNION { [1..m -> FlagValues] : m \in 0..MaxArgs }

VARIABLES
    argv,               \* the flag values on the command line, in order
    parsed,             \* how many of them flag.Parse has handed to Set
    Names,              \* securityGroupNames.Names
    pc,                 \* where main is
    i,                  \* position of the outer range loop in Names (1-based)
    networkInterfaces,  \* result of the lookup of the current name
    j,                  \* position of the inner range loop (1-based)
    stdout,             \* the lines written to standard output
    lookups             \* the calls of getNetworkInterfacesForSecurityGroup so far

vars == <<argv, parsed, Names, pc, i, networkInterfaces, j, stdout, lookups>>

\* ---------------------------------------------------------------- flag value
\* Variants of Set with a slip in them: the value put in front, an empty value
\* refused, a value already collected left out.
SetPrepend(names, value) == [Names |-> <<value>> \o names, err |-> Nil]

SetRejectEmpty(names, value) ==
    IF value = "" THEN [Names |-> names, err |-> Ptr("empty name")]
    ELSE [Names |-> Append(names, value), err |-> Nil]

SetUnique(names, value) ==
    IF \E k \in 1..Len(names) : names[k] = value THEN [Names |-> names, err |-> Nil]
    ELSE [Names |-> Append(names, value), err |-> Nil]

\* SecurityGroupNames.Set: append the value, return nil.
Set(names, value) == [Names |-> Append(names, value), err |-> Nil]

\* ---------------------------------------------------------------- lookup
\* Variant of the copy loop that puts each record in front of the ones copied.
RECURSIVE CopyInterfacesReversed(_, _)
CopyInterfacesReversed(acc, rest) ==
    IF rest = <<>> THEN acc
    ELSE CopyInterfacesReversed(<<Head(rest)>> \o acc, Tail(rest))

\* The copy loop of getNetworkInterfacesForSecurityGroup: append every record of
\* the output to a fresh slice, in order.
RECURSIVE CopyInterfaces(_, _)
CopyInterfaces(acc, rest) ==
    IF rest = <<>> THEN acc
    ELSE CopyInterfaces(Append(acc, Head(rest)), Tail(rest))

\* Records handed out by the API so far.
Returned == LET RECURSIVE Sum(_)
                Sum(k) == IF k = 0 THEN 0 ELSE Len(lookups[k].resp) + Sum(k - 1)
            IN Sum(Len(lookups))

SetLast(log, status, resp) ==
    [log EXCEPT ![Len(log)] = [@ EXCEPT !.status = status, !.resp = resp]]

\* ---------------------------------------------------------------- presenter
HeaderLine(name) == <<"Security group name: ", name>>
InterfacesLine == <<"Network interfaces:">>
BlankLine == <<"">>

\* Variants of the InstanceId line: a placeholder printed for an absent instance
\* id; the attachment read without the nil test.
InstanceIdLinePlaceholder(ni) ==
    IF IsNil(ni.Attachment) \/ IsNil(Deref(ni.Attachment).InstanceId)
    THEN [panic |-> FALSE, lines |-> << <<"  InstanceId: ", "">> >>]
    ELSE [panic |-> FALSE,
          lines |-> << <<"  InstanceId: ", Deref(Deref(ni.Attachment).InstanceId)>> >>]

InstanceIdLineNoNilCheck(ni) ==
    IF IsNil(ni.Attachment) THEN [panic |-> TRUE, lines |-> <<>>]
    ELSE IF IsNil(Deref(ni.Attachment).InstanceId) THEN [panic |-> FALSE, lines |-> <<>>]
    ELSE [panic |-> FALSE,
          lines |-> << <<"  InstanceId: ", Deref(Deref(ni.Attachment).InstanceId)>> >>]

\* The InstanceId line: printed when the attachment and its instance id are set.
InstanceIdLine(ni) ==
    IF IsNil(ni.Attachment) THEN [panic |-> FALSE, lines |-> <<>>]
    ELSE IF IsNil(Deref(ni.Attachment).InstanceId) THEN [panic |-> FALSE, lines |-> <<>>]
    ELSE [panic |-> FALSE,
          lines |-> << <<"  InstanceId: ", Deref(Deref(ni.Attachment).InstanceId)>> >>]

\* The body of the inner loop for one interface: the lines it prints, and
\* whether it dereferenced a nil pointer on the way.
PresentInterface(ni) ==
    LET first == <<InterfacesLine>>
        inst  == InstanceIdLine(ni)
    IN IF IsNil(ni.NetworkInterfaceId) THEN [panic |-> TRUE, lines |-> first]
       ELSE LET withId == Append(first, <<"  NetworkInterface ID: ", Deref(ni.NetworkInterfaceId)>>)
            IN IF inst.panic THEN [panic |-> TRUE, lines |-> withId]
               ELSE [panic |-> FALSE,
                     lines |-> (withId \o inst.lines)
                               \o << <<"  Status: ", ni.Status>>, BlankLine >>]

\* ---------------------------------------------------------------- actions
Init ==
    /\ argv \in CommandLines
    /\ parsed = 0
    /\ Names = <<>>
    /\ pc = "flag.Parse"
    /\ i = 1
    /\ networkInterfaces = <<>>
    /\ j = 1
    /\ stdout = <<>>
    /\ lookups = <<>>

\* flag.Parse hands the next occurrence of the flag to Set; an error from Set
\* ends the process with a usage error.
FlagParse ==
    /\ pc = "flag.Parse"
    /\ parsed < Len(argv)
    /\ LET r == Set(Names, argv[parsed + 1])
       IN /\ Names' = r.Names
          /\ parsed' = parsed + 1
          /\ pc' = IF IsNil(r.err) THEN "flag.Parse" ELSE "usage"
    /\ UNCHANGED <<argv, i, networkInterfaces, j, stdout, lookups>>

\* Variant of the end of parsing: with no name given, every group is looked up.
FlagParseDoneDefaultAll ==
    /\ pc = "flag.Parse"
    /\ parsed = Len(argv)
    /\ Names' = IF Names = <<>> THEN <<"sg-a", "sg-b">> ELSE Names
    /\ pc' = "range"
    /\ UNCHANGED <<argv, parsed, i, networkInterfaces, j, stdout, lookups>>

\* flag.Parse returns when the command line is used up.
FlagParseDone ==
    /\ pc = "flag.Parse"
    /\ parsed = Len(argv)
    /\ pc' = "range"
    /\ UNCHANGED <<argv, parsed, Names, i, networkInterfaces, j, stdout, lookups>>

\* Variant of the loop head: the header is printed before the lookup is made.
RangeNamesHeaderFirst ==
    /\ pc = "range"
    /\ IF i <= Len(Names)
       THEN /\ lookups' = Append(lookups, [name |-> Names[i], status |-> "pending", resp |-> <<>>])
            /\ stdout' = Append(stdout, HeaderLine(Names[i]))
            /\ pc' = "LoadDefaultConfig"
       ELSE /\ pc' = "exit0"
            /\ UNCHANGED <<lookups, stdout>>
    /\ UNCHANGED <<argv, parsed, Names, i, networkInterfaces, j>>

\* Head of the outer loop: call the lookup for the next name, or return from main.
RangeNames ==
    /\ pc = "range"
    /\ IF i <= Len(Names)
       THEN /\ lookups' = Append(lookups, [name |-> Names[i], status |-> "pending", resp |-> <<>>])
            /\ pc' = "LoadDefaultConfig"
       ELSE /\ pc' = "exit0"
            /\ UNCHANGED lookups
    /\ UNCHANGED <<argv, parsed, Names, i, networkInterfaces, j, stdout>>

\* config.LoadDefaultConfig: panic on error.
LoadDefaultConfig ==
    /\ pc = "LoadDefaultConfig"
    /\ \E err \in BOOLEAN :
         IF err
         THEN /\ lookups' = SetLast(lookups, "config_error", <<>>)
              /\ pc' = "panic"
         ELSE /\ pc' = "DescribeNetworkInterfaces"
              /\ UNCHANGED lookups
    /\ UNCHANGED <<argv, parsed, Names, i, networkInterfaces, j, stdout>>

\* Variant of the describe call: the error is dropped and an empty result used.
DescribeIgnoreError ==
    /\ pc = "DescribeNetworkInterfaces"
    /\ \/ /\ lookups' = SetLast(lookups, "api_error", <<>>)
          /\ networkInterfaces' = <<>>
          /\ pc' = "print"
       \/ \E resp \in Responses(MaxIfaces - Returned) :
             /\ lookups' = SetLast(lookups, "ok", resp)
             /\ networkInterfaces' = CopyInterfaces(<<>>, resp)
             /\ pc' = "print"
    /\ UNCHANGED <<argv, parsed, Names, i, j, stdout>>

\* The describe call: panic on error, else copy the records and return them.
DescribeNetworkInterfaces ==
    /\ pc = "DescribeNetworkInterfaces"
    /\ \/ /\ lookups' = SetLast(lookups, "api_error", <<>>)
          /\ pc' = "panic"
          /\ UNCHANGED networkInterfaces
       \/ \E resp \in Responses(MaxIfaces - Returned) :
             /\ lookups' = SetLast(lookups, "ok", resp)
             /\ networkInterfaces' = CopyInterfaces(<<>>, resp)
             /\ pc' = "print"
    /\ UNCHANGED <<argv, parsed, Names, i, j, stdout>>

\* The header line of a group.
PrintHeader ==
    /\ pc = "print"
    /\ stdout' = Append(stdout, HeaderLine(Names[i]))
    /\ j' = 1
    /\ pc' = "range_interfaces"
    /\ UNCHANGED <<argv, parsed, Names, i, networkInterfaces, lookups>>

\* One turn of the inner loop, or its end.
PrintInterface ==
    /\ pc = "range_interfaces"
    /\ j <= Len(networkInterfaces)
    /\ LET r == PresentInterface(networkInterfaces[j])
       IN /\ stdout' = stdout \o r.lines
          /\ pc' = IF r.panic THEN "panic" ELSE "range_interfaces"
          /\ j' = IF r.panic THEN j ELSE j + 1
    /\ UNCHANGED <<argv, parsed, Names, i, networkInterfaces, lookups>>

EndInterfaces ==
    /\ pc = "range_interfaces"
    /\ j > Len(networkInterfaces)
    /\ i' = i + 1
    /\ pc' = "range"
    /\ UNCHANGED <<argv, parsed, Names, networkInterfaces, j, stdout, lookups>>

Next ==
    \/ FlagParse
    \/ FlagParseDone
    \/ RangeNames
    \/ LoadDefaultConfig
    \/ DescribeNetworkInterfaces
    \/ PrintHeader
    \/ PrintInterface
    \/ EndInterfaces

Spec == Init /\ [][Next]_vars

\* ---------------------------------------------------------------- reading stdout
IsHeader(line) == Len(line) = 2 /\ line[1] = "Security group name: "
IsInterfacesLine(line) == line = <<"Network interfaces:">>
IsIdLine(line) == Len(line) = 2 /\ line[1] = "  NetworkInterface ID: "
IsInstanceIdLine(line) == Len(line) = 2 /\ line[1] = "  InstanceId: "
IsStatusLine(line) == Len(line) = 2 /\ line[1] = "  Status: "
IsBlank(line) == line = <<"">>

Count(seq, P(_)) == Len(SelectSeq(seq, P))

\* Position of the n-th line of seq that satisfies P.
NthPos(seq, P(_), n) ==
    CHOOSE k \in 1..Len(seq) :
        P(seq[k]) /\ Cardinality({m \in 1..k : P(seq[m])}) = n

\* The lines of the n-th group of out: those after its header, up to the next header.
GroupBody(out, n) ==
    LET from == NthPos(out, IsHeader, n) + 1
        to   == IF n < Count(out, IsHeader) THEN NthPos(out, IsHeader, n + 1) - 1
                ELSE Len(out)
    IN SubSeq(out, from, to)

\* The n-th interface block of a group's body: up to its blank line, without it.
BlockOf(body, n) ==
    LET from == IF n = 1 THEN 1 ELSE NthPos(body, IsBlank, n - 1) + 1
        to   == NthPos(body, IsBlank, n) - 1
    IN SubSeq(body, from, to)

Distinct(seq) == \A a, b \in 1..Len(seq) : a # b => seq[a] # seq[b]

Failed(k) == lookups[k].status \in {"config_error", "api_error"}

HasInstanceId(ni) ==
    IF IsNil(ni.Attachment) THEN FALSE ELSE ~IsNil(Deref(ni.Attachment).InstanceId)

\* ---------------------------------------------------------------- properties

\* C1: when the names given are distinct and every lookup succeeded, the header
\* lines of the output are exactly one per name, in the order of the flags.
C1_HeadersInFlagOrder ==
    (pc = "exit0" /\ Distinct(argv)) =>
        SelectSeq(stdout, IsHeader)
            = [k \in 1..Len(argv) |-> <<"Security group name: ", argv[k]>>]

C1_Witness ==
    /\ pc = "exit0"
    /\ Len(argv) = 2
    /\ argv[1] # argv[2]
    /\ Count(stdout, IsHeader) = 2

\* C2: a failed lookup (configuration or API error alike) aborts the process
\* there: it is the last lookup made, it is the lookup of the name at its
\* position, nothing is printed for that name or a later one, and the process
\* is aborted, never exited successfully.
C2_FailureAborts ==
    \A k \in 1..Len(lookups) :
        Failed(k) =>
            /\ pc = "panic"
            /\ k = Len(lookups)
            /\ lookups[k].name = argv[k]
            /\ SelectSeq(stdout, IsHeader)
                 = [m \in 1..(k - 1) |-> <<"Security group name: ", argv[m]>>]

C2_Witness ==
    /\ Len(argv) = 2
    /\ Len(lookups) = 1
    /\ lookups[1].status = "api_error"
    /\ pc = "panic"

\* C3: with the flag given zero times there is no lookup and no output, and the
\* process goes on to a successful exit.
C3_NoFlagsNoOutput ==
    Len(argv) = 0 =>
        /\ lookups = <<>>
        /\ stdout = <<>>
        /\ pc \in {"flag.Parse", "range", "exit0"}
        /\ pc # "exit0" => ENABLED Next

C3_Witness == Len(argv) = 0 /\ pc = "exit0"

\* C4: every interface block printed for the current group has an InstanceId
\* line exactly when the record has an attachment with an instance id, that line
\* shows the id, and without it the block is the interfaces line, the identifier
\* line and the status line and nothing else.
C4_InstanceIdLineIffAttached ==
    (pc = "range_interfaces" /\ Count(stdout, IsHeader) > 0) =>
        LET body == GroupBody(stdout, Count(stdout, IsHeader))
        IN /\ Count(body, IsBlank) = j - 1
           /\ \A k \in 1..(j - 1) :
                LET ni == networkInterfaces[k]
                    block == BlockOf(body, k)
                IN /\ Count(block, IsIdLine) = 1
                   /\ Count(block, IsStatusLine) = 1
                   /\ \E m \in 1..Len(block) :
                        block[m] = <<"  NetworkInterface ID: ", Deref(ni.NetworkInterfaceId)>>
                   /\ \E m \in 1..Len(block) : block[m] = <<"  Status: ", ni.Status>>
                   /\ IF HasInstanceId(ni)
                      THEN SelectSeq(block, IsInstanceIdLine)
                             = << <<"  InstanceId: ", Deref(Deref(ni.Attachment).InstanceId)>> >>
                      ELSE Count(block, IsInstanceIdLine) = 0 /\ Len(block) = 3

C4_Witness ==
    /\ pc = "range_interfaces"
    /\ j = 4
    /\ HasInstanceId(networkInterfaces[1])
    /\ IsNil(networkInterfaces[2].Attachment)
    /\ ~IsNil(networkInterfaces[3].Attachment)
    /\ ~HasInstanceId(networkInterfaces[3])
    /\ Count(stdout, IsInstanceIdLine) = 1

\* C5: names are not deduplicated: on a successful exit there was one lookup per
\* flag occurrence, in order, and one header per occurrence followed by as many
\* interface blocks as that occurrence's lookup returned.
C5_NoDeduplication ==
    pc = "exit0" =>
        /\ Len(lookups) = Len(argv)
        /\ Count(stdout, IsHeader) = Len(argv)
        /\ \A k \in 1..Len(argv) :
             /\ lookups[k].name = argv[k]
             /\ lookups[k].status = "ok"
             /\ stdout[NthPos(stdout, IsHeader, k)] = <<"Security group name: ", argv[k]>>
             /\ Count(GroupBody(stdout, k), IsIdLine) = Len(lookups[k].resp)
             /\ Count(GroupBody(stdout, k), IsBlank) = Len(lookups[k].resp)

C5_Witness ==
    /\ pc = "exit0"
    /\ Len(argv) = 2
    /\ argv[1] = argv[2]
    /\ Len(lookups) = 2
    /\ Len(lookups[1].resp) = 1
    /\ Len(lookups[2].resp) = 2
    /\ Count(stdout, IsHeader) = 2

\* C6: every group's output has the "Network interfaces:" line exactly once,
\* directly after the header, also when the lookup returned no interface.
C6_InterfacesLineOncePerGroup ==
    pc = "exit0" =>
        \A n \in 1..Count(stdout, IsHeader) :
            LET body == GroupBody(stdout, n)
            IN /\ Len(body) >= 1
               /\ IsInterfacesLine(body[1])
               /\ Count(body, IsInterfacesLine) = 1

\* C7: printing never aborts the process: an abort comes from a failed lookup
\* only, and while a group is being printed there is always a next step.
C7_PresenterNeverFails ==
    /\ pc = "panic" => (Len(lookups) > 0 /\ Failed(Len(lookups)))
    /\ pc \in {"print", "range_interfaces"} => ENABLED Next

C7_Witness ==
    /\ pc = "exit0"
    /\ Len(lookups) = 1
    /\ \E m, n \in 1..Len(lookups[1].resp) :
         /\ IsNil(lookups[1].resp[m].Attachment)
         /\ ~IsNil(lookups[1].resp[n].Attachment)
         /\ ~HasInstanceId(lookups[1].resp[n])
    /\ Count(stdout, IsBlank) = Len(lookups[1].resp)

\* C8: Set never returns an error, and the collected names are the values handed
\* to it so far, in call order.
C8_SetAppends ==
    /\ pc # "usage"
    /\ parsed <= Len(argv)
    /\ Names = SubSeq(argv, 1, parsed)

C8_Witness ==
    /\ parsed = 2
    /\ argv = <<"", "">>
    /\ Names = <<"", "">>

\* C9: the lookup returns the records of the API's response, in the response's
\* order, and the blocks printed so far for the group are one per record, in
\* that order.
C9_RecordsInApiOrder ==
    (pc \in {"print", "range_interfaces"}) =>
        /\ networkInterfaces = lookups[Len(lookups)].resp
        /\ pc = "range_interfaces" =>
             LET body == GroupBody(stdout, Count(stdout, IsHeader))
             IN /\ SelectSeq(body, IsIdLine)
                     = [k \in 1..(j - 1) |->
                          <<"  NetworkInterface ID: ",
                            Deref(lookups[Len(lookups)].resp[k].NetworkInterfaceId)>>]
                /\ SelectSeq(body, IsStatusLine)
                     = [k \in 1..(j - 1) |->
                          <<"  Status: ", lookups[Len(lookups)].resp[k].Status>>]

C9_Witness ==
    /\ pc = "range_interfaces"
    /\ j = 3
    /\ Len(networkInterfaces) = 2
    /\ networkInterfaces[1] # networkInterfaces[2]
    /\ Count(stdout, IsIdLine) = 2

\* C10: while the lookup of a name is under way, and when it has aborted the
\* process, the output is the complete groups of the names before it: one
\* header per earlier name, in order, each followed by all the blocks of its
\* lookup, and nothing for the name being looked up.
C10_SequentialOutput ==
    (Len(lookups) > 0 /\ lookups[Len(lookups)].status # "ok") =>
        LET n == Len(lookups)
        IN /\ pc \in {"LoadDefaultConfig", "DescribeNetworkInterfaces", "panic"}
           /\ i = n
           /\ SelectSeq(stdout, IsHeader)
                = [k \in 1..(n - 1) |-> <<"Security group name: ", lookups[k].name>>]
           /\ \A k \in 1..(n - 1) :
                /\ lookups[k].status = "ok"
                /\ Count(GroupBody(stdout, k), IsIdLine) = Len(lookups[k].resp)
                /\ Count(GroupBody(stdout, k), IsBlank) = Len(lookups[k].resp)
           /\ stdout # <<>> => (IsBlank(stdout[Len(stdout)]) \/ IsHeader(stdout[Len(stdout)]))

C10_Witness ==
    /\ pc = "panic"
    /\ Len(lookups) = 2
    /\ Len(lookups[1].resp) = 2
    /\ Count(stdout, IsBlank) = 2

====
